---- MODULE Spec2Model ----
(***************************************************************************)
(* The relocating assembler of portal-co/mx6502: the program builder       *)
(* `Block` (assembler/src/lib.rs) and the address helpers of the model     *)
(* crate (model/src/lib.rs).                                               *)
(*                                                                         *)
(* A `Block` is the triple (cursor_offset, program, labels).  The builder  *)
(* calls are the actions; `Block::assemble` is one action that runs the    *)
(* whole function: the relocation loop, `buffer.resize`, and the patch     *)
(* loop up to its first `return Err`, its first panic, or its end.         *)
(*                                                                         *)
(* Addresses are u16 (0 .. 65535), bytes are u8 (0 .. 255).  A Vec<u8> is  *)
(* the record [len, nz]: its length and the bytes that are not 0, as a     *)
(* function from index to byte; every index below len outside DOMAIN nz    *)
(* holds 0.                                                                *)
(*                                                                         *)
(* Rust's `+` and `-` on integers panic on overflow when the crate is      *)
(* built with overflow checks (the debug profile) and wrap when it is      *)
(* built without (the release profile).  The profile is fixed for a run:   *)
(* overflow_checks is chosen in Init and never changes.                    *)
(***************************************************************************)
EXTENDS Integers, Sequences, FiniteSets, TLC

VARIABLES
    cursor_offset,    \* Block.cursor_offset
    program,          \* Block.program: sequence of DataAtOffset
    labels,           \* Block.labels: function from declared names to offsets
    buffer,           \* the caller's Vec<u8> handed to assemble
    call,             \* arguments of the latest assemble call
    result,           \* what the latest assemble call returned
    panicked,         \* a panic! has unwound the calling thread
    overflow_checks,  \* build profile: TRUE = arithmetic overflow panics
    trip              \* an Address taken through the address helpers

vars == <<cursor_offset, program, labels, buffer, call, result, panicked, overflow_checks,
          trip>>

builder == <<cursor_offset, program, labels>>

(***************************************************************************)
(* Bounds of the exploration and the inputs the caller draws from.         *)
(***************************************************************************)
MaxStmts == 2

Names == {"L"}
Bytes == {171}
Addresses == {4660}
Bases == {32768, 65535}
Rewinds == {0}
SeekSizes == {4}
BranchOffsets == {0, 127, 128, 129, 32768}
BranchBases == {0, 32768}
WholeSpace == {65536}
Names2 == {"L", "M"}
WrapOffsets == {65535}
Sizes == {2, 4}
WrapSizes == {4, 65536}
LoopOffsets == {1, 65535}

\* assembler_instruction::Jmp::<addressing_mode::Absolute>::opcode(): 0x4C, the
\* MOS 6502 opcode of JMP with an absolute operand
JmpAbsoluteOpcode == 76

U16 == 65536

U8 == 256

I16Min == -32768

I16Max == 32767

(***************************************************************************)
(* model/src/lib.rs: address helpers.                                      *)
(***************************************************************************)
lo(address) == address % U8

\* address::hi without the shift
hi_unshifted(address) == address % U8

hi(address) == (address \div U8) % U8

from_u8_lo_hi(l, h) == ((h * U8) % U16) + l

from_u8_hi_lo(h, l) == from_u8_lo_hi(l, h)

\* an Address x on its way through the helpers: split into lo and hi, then
\* joined again by from_u8_lo_hi (lo_hi) and by from_u8_hi_lo (hi_lo)
AddressTrip(stage, x, l, h, lo_hi, hi_lo) ==
    [stage |-> stage, x |-> x, lo |-> l, hi |-> h, lo_hi |-> lo_hi, hi_lo |-> hi_lo]

NoTrip == AddressTrip("none", 0, 0, 0, 0, 0)

(***************************************************************************)
(* Integer conversions and arithmetic of the target types.                 *)
(***************************************************************************)
\* u16::saturating_add in the place of u16::wrapping_add
saturating_add(a, b) == IF a + b >= U16 THEN U16 - 1 ELSE a + b

wrapping_add(a, b) == (a + b) % U16

as_i16(v) == IF v > I16Max THEN v - U16 ELSE v

wrap_i16(v) == ((v - I16Min) % U16) + I16Min

fits_i16(v) == v >= I16Min /\ v <= I16Max

as_u8(v) == v % U8

(***************************************************************************)
(* Vec<u8>.                                                                *)
(***************************************************************************)
NoBytes == [i \in {} |-> 0]

EmptyVec == [len |-> 0, nz |-> NoBytes]

vec_get(v, i) == IF i \in DOMAIN v.nz THEN v.nz[i] ELSE 0

vec_set(v, i, b) ==
    LET D == IF b = 0 THEN DOMAIN v.nz \ {i} ELSE DOMAIN v.nz \cup {i}
    IN  [len |-> v.len, nz |-> [j \in D |-> IF j = i THEN b ELSE v.nz[j]]]

\* Vec::resize(size, 0): truncates, or extends with 0; the kept prefix is untouched.
vec_resize(v, size) ==
    [len |-> size, nz |-> [j \in {k \in DOMAIN v.nz : k < size} |-> v.nz[j]]]

\* what the caller's Vec may hold: nothing, or four bytes 0xEE of an earlier use
InitBuffers == {EmptyVec, [len |-> 4, nz |-> [i \in 0 .. 3 |-> 238]]}

(***************************************************************************)
(* enum Data / struct DataAtOffset.  value is the u8 or Address payload of *)
(* the literal kinds, label the String payload of the label kinds.         *)
(***************************************************************************)
DataAtOffset(kind, value, label, offset) ==
    [kind |-> kind, value |-> value, label |-> label, offset |-> offset]

Width(kind) ==
    IF kind \in {"LiteralOffsetLe", "LiteralAddressLe", "LabelOffsetLe"} THEN 2 ELSE 1

NoLabels == [n \in {} |-> 0]

map_insert(m, k, v) == [n \in DOMAIN m \cup {k} |-> IF n = k THEN v ELSE m[n]]

(***************************************************************************)
(* Results of assemble: Ok(AssembledBlock { labels }), Err(Error), or a    *)
(* panic that unwinds out of the call.                                     *)
(***************************************************************************)
NoResult == [kind |-> "None", error |-> "", label |-> "", labels |-> NoLabels]

Ok(relocated) == [kind |-> "Ok", error |-> "", label |-> "", labels |-> relocated]

Err(error, label) == [kind |-> "Err", error |-> error, label |-> label, labels |-> NoLabels]

Panic(what) == [kind |-> "Panic", error |-> what, label |-> "", labels |-> NoLabels]

Continue == [kind |-> "Continue", error |-> "", label |-> "", labels |-> NoLabels]

NoCall == [made |-> FALSE, base |-> 0, size |-> 0, buffer |-> EmptyVec]

Step(buf, outcome) == [buffer |-> buf, outcome |-> outcome]


(***************************************************************************)
(* Block::assemble, piece by piece.                                        *)
(***************************************************************************)
\* `a + b` on u16 overflows
add_overflows(a, b) == a + b >= U16

\* `buffer[i] = b`: Vec's IndexMut panics when i is not below the length
store(buf, i, b) ==
    IF i < buf.len
    THEN Step(vec_set(buf, i, b), Continue)
    ELSE Step(buf, Panic("index out of bounds"))

\* store2 with the two bytes in the other order: high byte first
store2_high_first(buf, i, b1, b2) ==
    LET first == store(buf, i, b2)
    IN  IF first.outcome.kind = "Continue" THEN store(first.buffer, i + 1, b1) ELSE first

\* store2 with the second index computed in 16 bits: offset.wrapping_add(1)
store2_wrapping(buf, i, b1, b2) ==
    LET first == store(buf, i, b1)
    IN  IF first.outcome.kind = "Continue"
        THEN store(first.buffer, wrapping_add(i, 1), b2)
        ELSE first

\* `buffer[i] = b1; buffer[i + 1] = b2;` in this order
store2(buf, i, b1, b2) ==
    LET first == store(buf, i, b1)
    IN  IF first.outcome.kind = "Continue" THEN store(first.buffer, i + 1, b2) ELSE first

\* `let address = v + base; buffer[offset] = lo(address); buffer[offset + 1] = hi(address);`
store_relocated_le(buf, offset, v, base) ==
    IF overflow_checks /\ add_overflows(v, base)
    THEN Step(buf, Panic("attempt to add with overflow"))
    ELSE store2(buf, offset, lo(wrapping_add(v, base)), hi(wrapping_add(v, base)))

arm_LiteralByte(stmt, buf, base, size) ==
    IF stmt.offset >= size
    THEN Step(buf, Err("OffsetOutOfBounds", ""))
    ELSE store(buf, stmt.offset, stmt.value)

\* arm_LabelOffsetLe patching the block-relative offset: the `+ base` forgotten
arm_LabelOffsetLe_unrelocated(stmt, buf, base, size) ==
    IF stmt.label \in DOMAIN labels
    THEN IF stmt.offset + 1 >= size
         THEN Step(buf, Err("OffsetOutOfBounds", ""))
         ELSE store2(buf, stmt.offset, lo(labels[stmt.label]), hi(labels[stmt.label]))
    ELSE Step(buf, Err("UndeclaredLabel", stmt.label))

arm_LabelOffsetLe(stmt, buf, base, size) ==
    IF stmt.label \in DOMAIN labels
    THEN IF stmt.offset + 1 >= size
         THEN Step(buf, Err("OffsetOutOfBounds", ""))
         ELSE store_relocated_le(buf, stmt.offset, labels[stmt.label], base)
    ELSE Step(buf, Err("UndeclaredLabel", stmt.label))

arm_LiteralOffsetLe(stmt, buf, base, size) ==
    IF stmt.offset + 1 >= size
    THEN Step(buf, Err("OffsetOutOfBounds", ""))
    ELSE store_relocated_le(buf, stmt.offset, stmt.value, base)

arm_LiteralAddressLe(stmt, buf, base, size) ==
    store2(buf, stmt.offset, lo(stmt.value), hi(stmt.value))

arm_LabelOffsetLo(stmt, buf, base, size) ==
    IF stmt.label \in DOMAIN labels
    THEN IF stmt.offset + 1 >= size
         THEN Step(buf, Err("OffsetOutOfBounds", ""))
         ELSE IF overflow_checks /\ add_overflows(labels[stmt.label], base)
              THEN Step(buf, Panic("attempt to add with overflow"))
              ELSE store(buf, stmt.offset, lo(wrapping_add(labels[stmt.label], base)))
    ELSE Step(buf, Err("UndeclaredLabel", stmt.label))

arm_LabelOffsetHi(stmt, buf, base, size) ==
    IF stmt.label \in DOMAIN labels
    THEN IF stmt.offset + 1 >= size
         THEN Step(buf, Err("OffsetOutOfBounds", ""))
         ELSE IF overflow_checks /\ add_overflows(labels[stmt.label], base)
              THEN Step(buf, Panic("attempt to add with overflow"))
              ELSE store(buf, stmt.offset, hi(wrapping_add(labels[stmt.label], base)))
    ELSE Step(buf, Err("UndeclaredLabel", stmt.label))

\* the displacement taken from the relocated label address, label_offset + base,
\* in the place of the builder's label_offset
arm_LabelRelativeOffset_relocated(stmt, buf, base, size) ==
    IF stmt.label \in DOMAIN labels
    THEN LET delta == wrap_i16(as_i16(wrapping_add(labels[stmt.label], base))
                               - as_i16(stmt.offset) - 1)
         IN  IF delta < -128 \/ delta > 127
             THEN Step(buf, Err("BranchTargetOutOfRange", stmt.label))
             ELSE store(buf, stmt.offset, as_u8(delta))
    ELSE Step(buf, Err("UndeclaredLabel", stmt.label))

\* `label_offset as i16 - offset as i16 - 1`: two i16 subtractions, left to right
arm_LabelRelativeOffset(stmt, buf, base, size) ==
    IF stmt.label \in DOMAIN labels
    THEN LET d1 == as_i16(labels[stmt.label]) - as_i16(stmt.offset)
             d2 == wrap_i16(d1) - 1
             delta == wrap_i16(d2)
         IN  IF overflow_checks /\ (~fits_i16(d1) \/ ~fits_i16(d2))
             THEN Step(buf, Panic("attempt to subtract with overflow"))
             ELSE IF delta < -128 \/ delta > 127
                  THEN Step(buf, Err("BranchTargetOutOfRange", stmt.label))
                  ELSE store(buf, stmt.offset, as_u8(delta))
    ELSE Step(buf, Err("UndeclaredLabel", stmt.label))

\* the `match data` of the patch loop
patch_statement(stmt, buf, base, size) ==
    CASE stmt.kind = "LiteralByte" -> arm_LiteralByte(stmt, buf, base, size)
      [] stmt.kind = "LabelOffsetLe" -> arm_LabelOffsetLe(stmt, buf, base, size)
      [] stmt.kind = "LiteralOffsetLe" -> arm_LiteralOffsetLe(stmt, buf, base, size)
      [] stmt.kind = "LiteralAddressLe" -> arm_LiteralAddressLe(stmt, buf, base, size)
      [] stmt.kind = "LabelOffsetLo" -> arm_LabelOffsetLo(stmt, buf, base, size)
      [] stmt.kind = "LabelOffsetHi" -> arm_LabelOffsetHi(stmt, buf, base, size)
      [] stmt.kind = "LabelRelativeOffset" -> arm_LabelRelativeOffset(stmt, buf, base, size)

\* the program walked from its last statement back to its first, in the
\* place of emission order
RECURSIVE patch_down(_, _, _, _)
patch_down(i, buf, base, size) ==
    IF i < 1
    THEN Step(buf, Continue)
    ELSE LET s == patch_statement(program[i], buf, base, size)
         IN  IF s.outcome.kind = "Continue" THEN patch_down(i - 1, s.buffer, base, size) ELSE s

patch_from_last(i, buf, base, size) == patch_down(Len(program), buf, base, size)

\* `for ... in self.program.iter()`: statements i .. Len(program), stopping at
\* the first statement that returns or panics
RECURSIVE patch_from(_, _, _, _)
patch_from(i, buf, base, size) ==
    IF i > Len(program)
    THEN Step(buf, Continue)
    ELSE LET s == patch_statement(program[i], buf, base, size)
         IN  IF s.outcome.kind = "Continue" THEN patch_from(i + 1, s.buffer, base, size) ELSE s

\* the result's table as a copy of the builder's table, base not added
unrelocated_labels(base) == labels

\* the relocation loop: `labels.insert(label.clone(), address + base)`
relocation_overflows(base) ==
    overflow_checks /\ \E n \in DOMAIN labels : add_overflows(labels[n], base)

relocated_labels(base) == [n \in DOMAIN labels |-> wrapping_add(labels[n], base)]

\* Option<Address>
None == [some |-> FALSE, value |-> 0]

Some(address) == [some |-> TRUE, value |-> address]

\* AssembledBlock::address_of_label(&self, label): `self.labels.get(label).cloned()`
address_of_label(block, name) ==
    IF name \in DOMAIN block.labels THEN Some(block.labels[name]) ELSE None

\* Block::assemble(&self, base, size, buffer) as a function of the builder state
\* and its arguments: the buffer it leaves and what it returns
assemble(base, size, buf0) ==
    IF relocation_overflows(base)
    THEN Step(buf0, Panic("attempt to add with overflow"))
    ELSE LET patched == patch_from(1, vec_resize(buf0, size), base, size)
         IN  IF patched.outcome.kind = "Continue"
             THEN Step(patched.buffer, Ok(relocated_labels(base)))
             ELSE patched

(***************************************************************************)
(* The builder calls.  A call is made by a caller that has not panicked;   *)
(* the exploration builds a Block and then resolves it, any number of      *)
(* times (no builder call follows an assemble call), and stops emitting    *)
(* after MaxStmts emit calls (infinite_loop is one call that appends two   *)
(* statements, the first a LiteralByte with the JMP opcode).               *)
(***************************************************************************)
may_build == ~panicked /\ ~call.made

emit_calls ==
    Len(program) - Cardinality({k \in 1 .. Len(program) :
                                   /\ program[k].kind = "LiteralByte"
                                   /\ program[k].value = JmpAbsoluteOpcode})

may_emit == may_build /\ emit_calls < MaxStmts

frame_build == UNCHANGED <<buffer, call, result, overflow_checks, trip>>

set_offset(offset) ==
    /\ may_build
    /\ cursor_offset' = offset
    /\ UNCHANGED <<program, labels, panicked>>
    /\ frame_build

literal_byte(byte) ==
    /\ may_emit
    /\ program' = Append(program, DataAtOffset("LiteralByte", byte, "", cursor_offset))
    /\ cursor_offset' = wrapping_add(cursor_offset, 1)
    /\ UNCHANGED <<labels, panicked>>
    /\ frame_build

literal_offset_le(offset) ==
    /\ may_emit
    /\ program' = Append(program, DataAtOffset("LiteralOffsetLe", offset, "", cursor_offset))
    /\ cursor_offset' = wrapping_add(cursor_offset, 2)
    /\ UNCHANGED <<labels, panicked>>
    /\ frame_build

literal_address_le(offset) ==
    /\ may_emit
    /\ program' = Append(program, DataAtOffset("LiteralAddressLe", offset, "", cursor_offset))
    /\ cursor_offset' = wrapping_add(cursor_offset, 2)
    /\ UNCHANGED <<labels, panicked>>
    /\ frame_build

label_offset_le(name) ==
    /\ may_emit
    /\ program' = Append(program, DataAtOffset("LabelOffsetLe", 0, name, cursor_offset))
    /\ cursor_offset' = wrapping_add(cursor_offset, 2)
    /\ UNCHANGED <<labels, panicked>>
    /\ frame_build

label_offset_lo(name) ==
    /\ may_emit
    /\ program' = Append(program, DataAtOffset("LabelOffsetLo", 0, name, cursor_offset))
    /\ cursor_offset' = wrapping_add(cursor_offset, 1)
    /\ UNCHANGED <<labels, panicked>>
    /\ frame_build

label_offset_hi(name) ==
    /\ may_emit
    /\ program' = Append(program, DataAtOffset("LabelOffsetHi", 0, name, cursor_offset))
    /\ cursor_offset' = wrapping_add(cursor_offset, 1)
    /\ UNCHANGED <<labels, panicked>>
    /\ frame_build

label_relative_offset(name) ==
    /\ may_emit
    /\ program' = Append(program, DataAtOffset("LabelRelativeOffset", 0, name, cursor_offset))
    /\ cursor_offset' = wrapping_add(cursor_offset, 1)
    /\ UNCHANGED <<labels, panicked>>
    /\ frame_build

\* infinite_loop with the operand read after the opcode is emitted: `offset`
\* is the cursor behind the opcode
infinite_loop_late ==
    /\ may_emit
    /\ program' = program \o
           << DataAtOffset("LiteralByte", JmpAbsoluteOpcode, "", cursor_offset),
              DataAtOffset("LiteralOffsetLe", wrapping_add(cursor_offset, 1), "",
                           wrapping_add(cursor_offset, 1)) >>
    /\ cursor_offset' = wrapping_add(wrapping_add(cursor_offset, 1), 2)
    /\ UNCHANGED <<labels, panicked>>
    /\ frame_build

\* `let offset = self.cursor_offset;` then literal_byte(opcode) and
\* literal_offset_le(offset), each at the cursor it finds
infinite_loop ==
    /\ may_emit
    /\ program' = program \o
           << DataAtOffset("LiteralByte", JmpAbsoluteOpcode, "", cursor_offset),
              DataAtOffset("LiteralOffsetLe", cursor_offset, "",
                           wrapping_add(cursor_offset, 1)) >>
    /\ cursor_offset' = wrapping_add(wrapping_add(cursor_offset, 1), 2)
    /\ UNCHANGED <<labels, panicked>>
    /\ frame_build

\* BTreeMap::insert stores the new offset and returns the old one; the panic
\* comes after the insert
label(name) ==
    /\ may_build
    /\ labels' = map_insert(labels, name, cursor_offset)
    /\ panicked' = (name \in DOMAIN labels)
    /\ UNCHANGED <<cursor_offset, program>>
    /\ frame_build

\* the caller hands assemble a Vec of its own: a fresh one, or the one the
\* previous call left
Assemble(base, size, buf0) ==
    /\ ~panicked
    /\ LET r == assemble(base, size, buf0)
       IN  /\ buffer' = r.buffer
           /\ result' = r.outcome
           /\ panicked' = (r.outcome.kind = "Panic")
    /\ call' = [made |-> TRUE, base |-> base, size |-> size, buffer |-> buf0]
    /\ UNCHANGED <<cursor_offset, program, labels, overflow_checks, trip>>

\* Block::new(), an empty Vec, either build profile
Init ==
    /\ cursor_offset = 0
    /\ program = << >>
    /\ labels = NoLabels
    /\ buffer = EmptyVec
    /\ call = NoCall
    /\ result = NoResult
    /\ panicked = FALSE
    /\ overflow_checks \in BOOLEAN
    /\ trip = NoTrip

\* the seven emit calls
Emit ==
    \/ \E b \in Bytes : literal_byte(b)
    \/ \E a \in Addresses : literal_offset_le(a)
    \/ \E a \in Addresses : literal_address_le(a)
    \/ \E n \in Names : label_offset_le(n)
    \/ \E n \in Names : label_offset_lo(n)
    \/ \E n \in Names : label_offset_hi(n)
    \/ \E n \in Names : label_relative_offset(n)

Rewind == \E o \in Rewinds : set_offset(o)

Declare == \E n \in Names : label(n)

Resolve ==
    \E base \in Bases, size \in Sizes, buf0 \in InitBuffers \cup {buffer} :
        Assemble(base, size, buf0)

\* resolving into a Vec::new(), or again into the Vec of the previous call
ResolveSeek ==
    \E base \in Bases, size \in SeekSizes, buf0 \in {EmptyVec, buffer} :
        Assemble(base, size, buf0)

(***************************************************************************)
(* Spec: straight-line programs.  Every statement kind, one label name,    *)
(* no set_offset: statements sit at 0, 1, 2, ... in emission order.        *)
(***************************************************************************)
Next == Emit \/ Declare \/ Resolve

Spec == Init /\ [][Next]_vars

(***************************************************************************)
(* SpecSeek: the same calls and set_offset back to 0, so that statements   *)
(* overlap and labels are declared behind the statements that use them.    *)
(***************************************************************************)
NextSeek == Emit \/ Declare \/ Rewind \/ ResolveSeek

SpecSeek == Init /\ [][NextSeek]_vars

(***************************************************************************)
(* SpecBranch: relative branches between the offsets 0, 127 .. 129 and     *)
(* 0x8000 and the offsets next to them, resolved into a buffer that spans  *)
(* the whole address space.                                                *)
(***************************************************************************)
Branch == \E n \in Names : label_relative_offset(n)

Jump == \E o \in BranchOffsets : set_offset(o)

ResolveBranch ==
    \E base \in BranchBases, size \in WholeSpace, buf0 \in {EmptyVec, buffer} :
        Assemble(base, size, buf0)

NextBranch == Branch \/ Declare \/ Jump \/ ResolveBranch

SpecBranch == Init /\ [][NextBranch]_vars

(***************************************************************************)
(* SpecNames: two label names, the four label-referencing statement kinds. *)
(***************************************************************************)
Refer ==
    \/ \E n \in Names2 : label_offset_le(n)
    \/ \E n \in Names2 : label_offset_lo(n)
    \/ \E n \in Names2 : label_offset_hi(n)
    \/ \E n \in Names2 : label_relative_offset(n)

Declare2 == \E n \in Names2 : label(n)

NextNames == Refer \/ Declare2 \/ ResolveSeek

SpecNames == Init /\ [][NextNames]_vars

(***************************************************************************)
(* SpecBuilder: the builder alone.  Every statement kind and label, with   *)
(* set_offset to 0xFFFF, the last address, so that the cursor wraps.       *)
(***************************************************************************)
ToLast == \E o \in WrapOffsets : set_offset(o)

NextBuilder == Emit \/ Declare \/ ToLast

SpecBuilder == Init /\ [][NextBuilder]_vars

(***************************************************************************)
(* SpecWrap: 2-byte statements at 0xFFFF.  literal_byte and the three      *)
(* 2-byte kinds with set_offset to 0xFFFF, resolved into 4 bytes and into  *)
(* the whole address space.                                                *)
(***************************************************************************)
EmitWide ==
    \/ \E b \in Bytes : literal_byte(b)
    \/ \E a \in Addresses : literal_offset_le(a)
    \/ \E a \in Addresses : literal_address_le(a)
    \/ \E n \in Names : label_offset_le(n)

ResolveWrap ==
    \E base \in BranchBases, size \in WrapSizes, buf0 \in {EmptyVec, buffer} :
        Assemble(base, size, buf0)

NextWrap == EmitWide \/ Declare \/ ToLast \/ ResolveWrap

SpecWrap == Init /\ [][NextWrap]_vars

(***************************************************************************)
(* SpecLoop: infinite_loop at the cursors 0, 1, 0xFFFF and behind other     *)
(* statements, with literal_byte to write over its bytes.                  *)
(***************************************************************************)
Loop == infinite_loop

PutByte == \E b \in Bytes : literal_byte(b)

Seek == \E o \in LoopOffsets : set_offset(o)

NextLoop == Loop \/ PutByte \/ Seek \/ ResolveWrap

SpecLoop == Init /\ [][NextLoop]_vars

(***************************************************************************)
(* SpecAddress: the address helpers alone.  Every 16-bit Address is split  *)
(* with lo and hi and joined again with from_u8_lo_hi and from_u8_hi_lo.   *)
(***************************************************************************)
Words == 0 .. (U16 - 1)

InitAddress ==
    /\ cursor_offset = 0
    /\ program = << >>
    /\ labels = NoLabels
    /\ buffer = EmptyVec
    /\ call = NoCall
    /\ result = NoResult
    /\ panicked = FALSE
    /\ overflow_checks = FALSE
    /\ trip \in {AddressTrip("input", x, 0, 0, 0, 0) : x \in Words}

frame_address ==
    UNCHANGED <<cursor_offset, program, labels, buffer, call, result, panicked, overflow_checks>>

Split ==
    /\ trip.stage = "input"
    /\ trip' = [trip EXCEPT !.stage = "split", !.lo = lo(trip.x), !.hi = hi(trip.x)]
    /\ frame_address

Join ==
    /\ trip.stage = "split"
    /\ trip' = [trip EXCEPT !.stage = "joined",
                            !.lo_hi = from_u8_lo_hi(trip.lo, trip.hi),
                            !.hi_lo = from_u8_hi_lo(trip.hi, trip.lo)]
    /\ frame_address

NextAddress == Split \/ Join

SpecAddress == InitAddress /\ [][NextAddress]_vars

(***************************************************************************)
(* What the claims speak of.                                               *)
(***************************************************************************)
\* the highest byte index statement k writes
Top(k) == program[k].offset + Width(program[k].kind) - 1

\* the buffer and the outcome of the patch loop of call c after its
\* statements 1 .. j
RECURSIVE patched_for(_, _)
patched_for(j, c) ==
    IF j = 0
    THEN Step(vec_resize(c.buffer, c.size), Continue)
    ELSE LET before == patched_for(j - 1, c)
         IN  IF before.outcome.kind = "Continue"
             THEN patch_statement(program[j], before.buffer, c.base, c.size)
             ELSE before

\* the same for the latest call
patched_through(j) == patched_for(j, call)

\* call c reached statement k: the relocation loop and the statements
\* before k went through
ReachedIn(k, c) ==
    /\ c.made
    /\ ~relocation_overflows(c.base)
    /\ k \in 1 .. Len(program)
    /\ patched_for(k - 1, c).outcome.kind = "Continue"

Reached(k) == ReachedIn(k, call)

OutOfBounds == Err("OffsetOutOfBounds", "")

\* C1: a statement whose highest byte index is >= size, reached by the patch
\* loop, makes assemble return Err(OffsetOutOfBounds) and leaves the buffer as
\* the statements before it left it (no panic, no byte of it written).
C1_OutOfBoundsIsReported ==
    \A k \in 1 .. Len(program) :
        (Reached(k) /\ Top(k) >= call.size)
            => /\ result = OutOfBounds
               /\ buffer = patched_through(k - 1).buffer

\* C2: Err(OffsetOutOfBounds) is never caused by a statement that fits: the
\* statement at which the patch loop returned it has its highest byte index
\* >= size.
C2_FittingStatementIsPatched ==
    \A k \in 1 .. Len(program) :
        (Reached(k) /\ Top(k) < call.size)
            => ~(result = OutOfBounds /\ patched_through(k).outcome = OutOfBounds)

\* statement j writes byte index i
Covers(j, i) == program[j].offset <= i /\ i <= Top(j)

\* no statement after k in emission order writes byte index i
NotOverwritten(k, i) == \A j \in (k + 1) .. Len(program) : ~Covers(j, i)

\* (p + base) mod 2^16 for the label statement k names
Relocated(k) == (labels[program[k].label] + call.base) % 65536

Succeeded == call.made /\ result.kind = "Ok"

\* C3 as stated: after a successful assemble every LabelOffsetLe statement at
\* offset o naming a declared label at p has buffer[o], buffer[o+1] = low, high
\* byte of (p + base) mod 2^16, which is address_of_label of the result.
C3_Original ==
    Succeeded =>
        \A k \in 1 .. Len(program) :
            (program[k].kind = "LabelOffsetLe" /\ program[k].label \in DOMAIN labels)
                => /\ vec_get(buffer, program[k].offset) = Relocated(k) % 256
                   /\ vec_get(buffer, program[k].offset + 1) = Relocated(k) \div 256
                   /\ result.labels[program[k].label] = Relocated(k)

\* C3, amended: the same for each of the two bytes that no statement emitted
\* later writes; the label may be declared before or after the reference.
C3_ForwardReference ==
    Succeeded =>
        \A k \in 1 .. Len(program) :
            (program[k].kind = "LabelOffsetLe" /\ program[k].label \in DOMAIN labels)
                => /\ NotOverwritten(k, program[k].offset)
                        => vec_get(buffer, program[k].offset) = Relocated(k) % 256
                   /\ NotOverwritten(k, program[k].offset + 1)
                        => vec_get(buffer, program[k].offset + 1) = Relocated(k) \div 256
                   /\ result.labels[program[k].label] = Relocated(k)

\* C3 witness: the only statement is a reference to L at offset 0, L was
\* declared at the cursor the statement left (2, so after it), and the call at
\* base 0xFFFF succeeded with bytes 0x01, 0x00 (0x0002 + 0xFFFF wraps to 0x0001).
C3_Witness ==
    /\ Succeeded
    /\ call.base = 65535
    /\ Len(program) = 1
    /\ program[1].kind = "LabelOffsetLe"
    /\ "L" \in DOMAIN labels
    /\ labels["L"] = 2
    /\ vec_get(buffer, 0) = 1
    /\ vec_get(buffer, 1) = 0
    /\ result.labels["L"] = 1

\* the bytes statement k must leave when it relocates with wrapping addition
WrappedBytes(k) ==
    LET s == program[k]
        a == IF s.kind = "LiteralOffsetLe" THEN (s.value + call.base) % 65536 ELSE Relocated(k)
    IN  /\ s.kind \in {"LabelOffsetLe", "LiteralOffsetLe"}
            => /\ NotOverwritten(k, s.offset) => vec_get(buffer, s.offset) = a % 256
               /\ NotOverwritten(k, s.offset + 1) => vec_get(buffer, s.offset + 1) = a \div 256
        /\ s.kind = "LabelOffsetLo"
            => (NotOverwritten(k, s.offset) => vec_get(buffer, s.offset) = a % 256)
        /\ s.kind = "LabelOffsetHi"
            => (NotOverwritten(k, s.offset) => vec_get(buffer, s.offset) = a \div 256)

\* C4: relocation is 16-bit wrapping addition for every offset and base: no
\* call ends in an overflow panic, and a call that patched every statement
\* holds (v + b) mod 2^16 in the relocated table and in the patched bytes.
C4_RelocationWraps ==
    call.made =>
        /\ ~(result.kind = "Panic" /\ result.error = "attempt to add with overflow")
        /\ result.kind = "Ok" =>
            /\ result.labels = [n \in DOMAIN labels |-> (labels[n] + call.base) % 65536]
            /\ \A k \in 1 .. Len(program) :
                   program[k].kind \in {"LabelOffsetLe", "LabelOffsetLo", "LabelOffsetHi",
                                        "LiteralOffsetLe"} => WrappedBytes(k)

\* C5: a LabelRelativeOffset statement at o (inside the buffer) naming a
\* label declared at p, with d = p - (o + 1) in signed 16-bit arithmetic:
\* assemble returns Err(BranchTargetOutOfRange(label)) when d is outside
\* [-128, 127], and otherwise stores the two's-complement byte of d at o.
Displacement(k) ==
    ((labels[program[k].label] - (program[k].offset + 1) + 32768) % 65536) - 32768

C5_RelativeBranch ==
    \A k \in 1 .. Len(program) :
        (/\ Reached(k)
         /\ program[k].kind = "LabelRelativeOffset"
         /\ program[k].label \in DOMAIN labels
         /\ program[k].offset < call.size)
            => IF Displacement(k) < -128 \/ Displacement(k) > 127
               THEN result = Err("BranchTargetOutOfRange", program[k].label)
               ELSE /\ patched_through(k).outcome.kind = "Continue"
                    /\ vec_get(patched_through(k).buffer, program[k].offset)
                           = Displacement(k) % 256
                    /\ (k = Len(program) => result.kind = "Ok")

\* C6: a label-referencing statement naming a label that is not in the label
\* table, with no earlier statement failed, makes assemble return
\* Err(UndeclaredLabel(name)) with that name.
C6_UndeclaredLabel ==
    \A k \in 1 .. Len(program) :
        (/\ call.made
         /\ patched_through(k - 1).outcome.kind = "Continue"
         /\ program[k].kind \in {"LabelOffsetLe", "LabelOffsetLo", "LabelOffsetHi",
                                 "LabelRelativeOffset"}
         /\ program[k].label \notin DOMAIN labels)
            => result = Err("UndeclaredLabel", program[k].label)

\* C7: after a successful assemble the buffer has exactly size bytes and every
\* index no statement writes holds 0, whatever the buffer held before.
C7_ZeroFilled ==
    Succeeded =>
        /\ buffer.len = call.size
        /\ \A i \in DOMAIN buffer.nz : \E k \in 1 .. Len(program) : Covers(k, i)

\* C8: a second assemble of the same builder state with the same base and size
\* leaves the same buffer and returns the same result as the first, and no
\* call changes the builder.
C8_Idempotent ==
    [][(call.made /\ call'.made /\ call'.base = call.base /\ call'.size = call.size)
          => (buffer' = buffer /\ result' = result /\ builder' = builder)]_vars

\* C9: a name in the label table keeps the offset of its first declaration:
\* no call changes the offset of a declared name.
C9_FirstDeclarationKept ==
    [][\A n \in DOMAIN labels : n \in DOMAIN labels' /\ labels'[n] = labels[n]]_vars

\* the width of each statement kind, as the data model gives it
KindWidth(kind) ==
    CASE kind \in {"LiteralByte", "LabelOffsetLo", "LabelOffsetHi", "LabelRelativeOffset"} -> 1
      [] kind \in {"LiteralAddressLe", "LiteralOffsetLe", "LabelOffsetLe"} -> 2

\* C10: an emit call appends one statement, positioned at the cursor before
\* the call, and advances the cursor by the kind's width modulo 2^16.
C10_CursorAdvance ==
    [][Len(program') = Len(program) + 1
          => /\ SubSeq(program', 1, Len(program)) = program
             /\ program'[Len(program')].offset = cursor_offset
             /\ cursor_offset' =
                    (cursor_offset + KindWidth(program'[Len(program')].kind)) % 65536]_vars

\* C10 witness: a 2-byte statement emitted at cursor 0xFFFF, cursor now 0x0001.
C10_Witness ==
    /\ Len(program) >= 1
    /\ program[Len(program)].offset = 65535
    /\ program[Len(program)].kind \in {"LiteralAddressLe", "LiteralOffsetLe", "LabelOffsetLe"}
    /\ cursor_offset = 1

\* the byte statement k is to store at byte index i of its width (index i
\* matters for the 2-byte kinds only: low byte at the offset, high byte after)
StatementByte(k, i) ==
    LET s == program[k]
        v == CASE s.kind \in {"LiteralByte", "LiteralAddressLe"} -> s.value
               [] s.kind = "LiteralOffsetLe" -> (s.value + call.base) % 65536
               [] s.kind \in {"LabelOffsetLe", "LabelOffsetLo", "LabelOffsetHi"} -> Relocated(k)
               [] s.kind = "LabelRelativeOffset" -> Displacement(k) % 256
    IN  CASE s.kind \in {"LiteralByte", "LabelOffsetLo", "LabelRelativeOffset"} -> v % 256
          [] s.kind = "LabelOffsetHi" -> v \div 256
          [] s.kind \in {"LiteralAddressLe", "LiteralOffsetLe", "LabelOffsetLe"}
                -> IF i = s.offset THEN v % 256 ELSE v \div 256

\* C11: last write wins.  After a successful assemble, a byte index that two
\* or more statements cover holds the byte of the statement emitted latest
\* among them, whatever the kinds and widths of the statements.
C11_LastWriteWins ==
    Succeeded =>
        \A j \in 1 .. Len(program), k \in 1 .. Len(program) :
            \A i \in program[k].offset .. Top(k) :
                (j < k /\ Covers(j, i) /\ NotOverwritten(k, i))
                    => vec_get(buffer, i) = StatementByte(k, i)

\* C11 witness: a 2-byte statement at 0 and then, after set_offset(0), a
\* LiteralByte at 0; the call succeeded, index 0 holds the literal byte and
\* index 1 still holds the high byte of the 2-byte statement.
C11_Witness ==
    /\ Succeeded
    /\ Len(program) = 2
    /\ program[1].kind = "LiteralAddressLe"
    /\ program[1].offset = 0
    /\ program[2].kind = "LiteralByte"
    /\ program[2].offset = 0
    /\ vec_get(buffer, 0) = program[2].value
    /\ vec_get(buffer, 1) = program[1].value \div 256
    /\ program[2].value # program[1].value % 256

\* the ways statement k fails for the latest call: it does not fit in size
\* bytes, it names a label that was never declared, or it is a relative
\* branch whose displacement is outside [-128, 127]
Failures(k) ==
    LET s == program[k]
    IN  {e \in {"OffsetOutOfBounds", "UndeclaredLabel", "BranchTargetOutOfRange"} :
            \/ e = "OffsetOutOfBounds" /\ Top(k) >= call.size
            \/ /\ e = "UndeclaredLabel"
               /\ s.kind \in {"LabelOffsetLe", "LabelOffsetLo", "LabelOffsetHi",
                              "LabelRelativeOffset"}
               /\ s.label \notin DOMAIN labels
            \/ /\ e = "BranchTargetOutOfRange"
               /\ s.kind = "LabelRelativeOffset"
               /\ s.label \in DOMAIN labels
               /\ (Displacement(k) < -128 \/ Displacement(k) > 127)}

\* statement k is the earliest failing statement in emission order
FirstFailing(k) ==
    /\ k \in 1 .. Len(program)
    /\ Failures(k) # {}
    /\ \A j \in 1 .. (k - 1) : Failures(j) = {}

\* C12: the patch pass aborts at the earliest failing statement.  When a
\* statement fails, assemble returns an Err that is one of the errors of the
\* earliest failing statement (with its label), and the buffer is as the
\* statements before it left it: no byte of the failing statement or of a
\* later one is written.  An Err is returned only when a statement fails.
C12_AbortAtFirstFailure ==
    (call.made /\ ~relocation_overflows(call.base)) =>
        /\ \A k \in 1 .. Len(program) :
               (Reached(k) /\ FirstFailing(k))
                   => /\ result.kind = "Err"
                      /\ result.error \in Failures(k)
                      /\ result.error # "OffsetOutOfBounds" => result.label = program[k].label
                      /\ buffer = patched_through(k - 1).buffer
        /\ result.kind = "Err" => \E k \in 1 .. Len(program) : FirstFailing(k)

\* a label statement of the program names n
Referenced(n) ==
    \E k \in 1 .. Len(program) :
        program[k].label = n /\ program[k].kind \notin {"LiteralByte", "LiteralOffsetLe",
                                                        "LiteralAddressLe"}

\* C13: after a successful assemble at base, address_of_label(name) is
\* Some((offset + base) mod 2^16) for every name the builder declared at
\* offset, referenced by a statement or not, and None for every other name:
\* the relocated table has the names of the builder's table and no others.
C13_RelocatedTable ==
    Succeeded =>
        /\ DOMAIN result.labels = DOMAIN labels
        /\ \A n \in Names2 \cup {"never"} :
               address_of_label(result, n) =
                   IF n \in DOMAIN labels
                   THEN Some((labels[n] + call.base) % 65536)
                   ELSE None

\* C13 witness: L and M are declared, M at offset 1, and the statements name
\* L only; after success at base 0xFFFF M is at 0 (1 + 0xFFFF wrapped) and a
\* name that was never declared is None.
C13_Witness ==
    /\ Succeeded
    /\ call.base = 65535
    /\ DOMAIN labels = {"L", "M"}
    /\ labels["M"] = 1
    /\ Referenced("L")
    /\ ~Referenced("M")
    /\ address_of_label(result, "M") = Some(0)
    /\ address_of_label(result, "never") = None

C15_LiteralRelocation ==
    \A k \in 1 .. Len(program) :
        (/\ Reached(k)
         /\ Top(k) < call.size
         /\ program[k].kind \in {"LiteralAddressLe", "LiteralOffsetLe"})
            => LET s == program[k]
                   a == IF s.kind = "LiteralAddressLe"
                        THEN s.value
                        ELSE (s.value + call.base) % 65536
                   after == patched_through(k)
               IN  /\ after.outcome.kind = "Continue"
                   /\ vec_get(after.buffer, s.offset) = a % 256
                   /\ vec_get(after.buffer, s.offset + 1) = a \div 256

\* C16: for every 16-bit x, from_u8_lo_hi(lo(x), hi(x)) is x, and
\* from_u8_hi_lo(hi(x), lo(x)) is the same value.
C16_AddressRoundTrip ==
    trip.stage = "joined" => (trip.lo_hi = trip.x /\ trip.hi_lo = trip.lo_hi)

\* C16 witness: 0xABCD was split into 0xCD and 0xAB and joined back.
C16_Witness ==
    /\ trip.stage = "joined"
    /\ trip.x = 43981
    /\ trip.lo = 205
    /\ trip.hi = 171
    /\ trip.lo_hi = 43981
    /\ trip.hi_lo = 43981

\* C17: error precedence inside one statement.  A LabelOffsetLe,
\* LabelOffsetLo or LabelOffsetHi statement that is out of bounds and also
\* names an undeclared label gets its bounds check before its label lookup:
\* assemble returns Err(OffsetOutOfBounds), not Err(UndeclaredLabel).
C17_BoundsCheckedFirst ==
    \A k \in 1 .. Len(program) :
        (/\ Reached(k)
         /\ program[k].kind \in {"LabelOffsetLe", "LabelOffsetLo", "LabelOffsetHi"}
         /\ Top(k) >= call.size
         /\ program[k].label \notin DOMAIN labels)
            => result = OutOfBounds

\* the 16-bit value a 2-byte statement k patches
PatchedWord(k) ==
    CASE program[k].kind = "LiteralAddressLe" -> program[k].value
      [] program[k].kind = "LiteralOffsetLe" -> (program[k].value + call.base) % 65536
      [] program[k].kind = "LabelOffsetLe" -> Relocated(k)

\* C18: patch footprint.  A statement the patch loop reaches changes no byte
\* outside its own width (its offset for the 1-byte kinds, its offset and the
\* next index for the 2-byte kinds) and not the length of the buffer; a
\* 2-byte statement that is patched has its low byte at the offset and its
\* high byte at the next index.
C18_PatchFootprint ==
    \A k \in 1 .. Len(program) :
        Reached(k) =>
            LET before == patched_through(k - 1).buffer
                after == patched_through(k)
            IN  /\ after.buffer.len = before.len
                /\ \A i \in DOMAIN before.nz \cup DOMAIN after.buffer.nz :
                       vec_get(after.buffer, i) # vec_get(before, i) => Covers(k, i)
                /\ (KindWidth(program[k].kind) = 2 /\ after.outcome.kind = "Continue")
                       => /\ vec_get(after.buffer, program[k].offset) = PatchedWord(k) % 256
                          /\ vec_get(after.buffer, program[k].offset + 1)
                                 = PatchedWord(k) \div 256

\* C18 witness: the buffer held 0xEE in its four bytes and the first
\* statement put 0xAB at 0; the second, a LiteralAddressLe of 0x1234 at offset
\* 1, was patched: 0x34 at 1, 0x12 at 2, the bytes at 0 and 3 as they were.
C18_Witness ==
    /\ Succeeded
    /\ call.size = 4
    /\ Len(program) = 2
    /\ program[2].kind = "LiteralAddressLe"
    /\ program[2].offset = 1
    /\ patched_through(1).buffer.nz = (0 :> 171) @@ (1 :> 238) @@ (2 :> 238) @@ (3 :> 238)
    /\ buffer.nz = (0 :> 171) @@ (1 :> 52) @@ (2 :> 18) @@ (3 :> 238)

\* C19: no wraparound at patch time.  Emitting a 2-byte statement at cursor
\* 0xFFFF leaves the cursor at 0x0001; when assemble with size <= 0x10000
\* reaches such a statement its second byte belongs at index 0x10000, so the
\* statement is not patched (the call ends at it, out of bounds unless its
\* label is undeclared) and the byte at index 0 stays as it was.
C19_NoWrapAtPatchTime ==
    /\ [][(/\ Len(program') = Len(program) + 1
           /\ cursor_offset = 65535
           /\ KindWidth(program'[Len(program')].kind) = 2)
              => (program'[Len(program')].offset = 65535 /\ cursor_offset' = 1)]_vars
    /\ [](\A k \in 1 .. Len(program) :
              (/\ Reached(k)
               /\ KindWidth(program[k].kind) = 2
               /\ program[k].offset = 65535
               /\ call.size <= 65536)
                  => LET before == patched_through(k - 1).buffer
                         after == patched_through(k)
                     IN  /\ after.outcome \in {OutOfBounds, Panic("index out of bounds"),
                                               Err("UndeclaredLabel", program[k].label)}
                         /\ result = after.outcome
                         /\ vec_get(after.buffer, 0) = vec_get(before, 0)
                         /\ vec_get(buffer, 0) = vec_get(before, 0))

\* C19 witness: literal_byte at 0, set_offset(0xFFFF), then a LiteralOffsetLe at
\* 0xFFFF (cursor now 1); the call with size 0x10000 returned
\* Err(OffsetOutOfBounds) and index 0 still holds the literal byte.
C19_Witness ==
    /\ call.made
    /\ call.size = 65536
    /\ Len(program) = 2
    /\ program[1].kind = "LiteralByte"
    /\ program[1].offset = 0
    /\ program[2].kind = "LiteralOffsetLe"
    /\ program[2].offset = 65535
    /\ cursor_offset = 1
    /\ result = OutOfBounds
    /\ vec_get(buffer, 0) = program[1].value

\* statements k and k + 1 are what infinite_loop appends at cursor c
IsLoopAt(k, c) ==
    /\ k + 1 <= Len(program)
    /\ program[k] = DataAtOffset("LiteralByte", JmpAbsoluteOpcode, "", c)
    /\ program[k + 1] = DataAtOffset("LiteralOffsetLe", c, "", (c + 1) % 65536)

\* a call that appends two statements appends, at cursor c, the JMP opcode at
\* c and LiteralOffsetLe(c) at c + 1, and leaves the cursor at c + 3 (mod 2^16)
LoopAppended ==
    Len(program') = Len(program) + 2
        => /\ SubSeq(program', 1, Len(program)) = program
           /\ program'[Len(program) + 1]
                  = DataAtOffset("LiteralByte", JmpAbsoluteOpcode, "", cursor_offset)
           /\ program'[Len(program) + 2]
                  = DataAtOffset("LiteralOffsetLe", cursor_offset, "",
                                 (cursor_offset + 1) % 65536)
           /\ cursor_offset' = (cursor_offset + 3) % 65536

\* C20 as stated: infinite_loop at cursor c appends the JMP opcode at c and
\* LiteralOffsetLe(c) at c + 1 and advances the cursor by 3; after a
\* successful assemble at base b the operand bytes, at c + 1 and c + 2, are
\* the low and the high byte of (c + b) mod 2^16.
C20_Original ==
    /\ [][LoopAppended]_vars
    /\ [](Succeeded =>
             \A k \in 1 .. Len(program) :
                 IsLoopAt(k, program[k].offset)
                     => LET target == (program[k].offset + call.base) % 65536
                            o == program[k + 1].offset
                        IN  /\ vec_get(buffer, o) = target % 256
                            /\ vec_get(buffer, o + 1) = target \div 256)

\* C20, amended: the same for each operand byte that no statement emitted
\* later writes.
C20_InfiniteLoop ==
    /\ [][LoopAppended]_vars
    /\ [](Succeeded =>
             \A k \in 1 .. Len(program) :
                 IsLoopAt(k, program[k].offset)
                     => LET target == (program[k].offset + call.base) % 65536
                            o == program[k + 1].offset
                        IN  /\ NotOverwritten(k + 1, o)
                                => vec_get(buffer, o) = target % 256
                            /\ NotOverwritten(k + 1, o + 1)
                                => vec_get(buffer, o + 1) = target \div 256)

\* C20 witness: infinite_loop at cursor 0xFFFF: the opcode at 0xFFFF, the
\* operand at 0 and 1, the cursor at 2; the call at base 0x8000 succeeded and
\* the operand is 0x7FFF (0xFFFF + 0x8000 wrapped): 0xFF at 0, 0x7F at 1.
C20_Witness ==
    /\ Succeeded
    /\ call.base = 32768
    /\ Len(program) = 2
    /\ IsLoopAt(1, 65535)
    /\ cursor_offset = 2
    /\ vec_get(buffer, 65535) = JmpAbsoluteOpcode
    /\ vec_get(buffer, 0) = 255
    /\ vec_get(buffer, 1) = 127

====
